---- MODULE Spec2Model ----
(***************************************************************************)
(* Agent orchestration engine of claude-code-clone: the LangGraph turn     *)
(* state machine (agent/graph.ts, agent/nodes.ts), the conversation        *)
(* service on top of Prisma (services/conversation.service.ts), the        *)
(* in-memory storage service (services/memory-storage.service.ts), the MCP *)
(* tool registry (services/mcp.service.ts) and the driver (index.ts).      *)
(***************************************************************************)
EXTENDS Integers, Sequences, FiniteSets, TLC

VARIABLES
    env,              \* process.env: DATABASE_URL, GITHUB_TOKEN, TAVILY_API_KEY set or not
    prisma,           \* db/prisma.ts `prisma`: "null" or "client"
    db,               \* the database behind Prisma (tables, plus call instrumentation)
    now,              \* logical clock: Date.now() and the database's now()
    memConversations, \* MemoryStorageService.conversations
    messageIdCounter, \* MemoryStorageService.messageIdCounter
    toolExecutionIdCounter, \* MemoryStorageService.toolExecutionIdCounter
    lastCall,         \* the latest call of a service method made from outside: arguments and return
    servers,          \* MCPService.servers (a Map: insertion-ordered)
    connectedServers, \* MCPService.connectedServers (a Set: insertion-ordered)
    closeCalls,       \* number of calls of client.close() on the client of each server name
    teardown,         \* the calls of MCPService.disconnectAll() in flight, by their caller
    transports,       \* the transports connectServer created for each server name
    pc,               \* position of main()
    conversation,     \* the conversation main() created
    turn,             \* number of turns started
    superstep,        \* graph.invoke: supersteps (node executions) of the current run
    requested,        \* tool calls the model has requested in the current turn
    historyLength,    \* conversationHistory.length of the current turn
    turnStartDb,      \* number of message rows in the database when the turn started
    messages,         \* AgentState.messages
    shouldContinue,   \* AgentState.shouldContinue
    toolResults,      \* AgentState.toolResults
    response,         \* modelNode: the latest model response
    callIdx,          \* toolUseNode: index of the next tool call of the loop
    toolMessages,     \* toolUseNode: local toolMessages
    localResults,     \* toolUseNode: local toolResults
    executed          \* toolUseNode: what each call attempted in the latest dispatch step produced

vars == <<env, prisma, db, now, memConversations, messageIdCounter, toolExecutionIdCounter,
          lastCall, servers, connectedServers, closeCalls, teardown, transports, pc,
          conversation, turn, superstep, requested, historyLength, turnStartDb, messages,
          shouldContinue, toolResults, response, callIdx, toolMessages, localResults,
          executed>>

(***************************************************************************)
(* Bounds of the model.                                                    *)
(***************************************************************************)
MaxCalls == 2
MaxDbFaults == 1
MaxTurns == 3
MaxLog == 2
MaxNow == 2
MaxConversations == 2
MaxDbCalls == 1
MaxCloses == 2
MaxConnects == 2

(***************************************************************************)
(* Program constants.                                                      *)
(***************************************************************************)
HistoryLimit == 10
RecursionLimit == 25

NoId == <<>>
NoCall == [op |-> "none"]
NoResponse == [failed |-> TRUE, text |-> "", function_calls |-> <<>>, stop_reason |-> "none"]
ErrorText == "Sorry, I encountered an error while processing your request."

(***************************************************************************)
(* Helpers on sequences.                                                   *)
(***************************************************************************)
Last(s) == s[Len(s)]

Range(s) == {s[i] : i \in 1..Len(s)}

Min(a, b) == IF a < b THEN a ELSE b

Max(a, b) == IF a > b THEN a ELSE b

SeqsUpTo(S, n) == UNION {[1..k -> S] : k \in 0..n}

\* Array.prototype.slice(-limit) for limit > 0
SliceLast(s, limit) == SubSeq(s, Len(s) - Min(limit, Len(s)) + 1, Len(s))

\* Array.prototype.slice(n)
SliceFrom(s, n) == SubSeq(s, n + 1, Len(s))

\* Array.prototype.slice(start) for any integer: a negative start counts from the
\* end, and -0 is 0
Slice(s, start) ==
    IF start < 0 THEN SliceFrom(s, Max(Len(s) + start, 0)) ELSE SliceFrom(s, Min(start, Len(s)))

RECURSIVE Reverse(_)
Reverse(s) == IF s = <<>> THEN <<>> ELSE Reverse(Tail(s)) \o <<Head(s)>>

\* { ...current, ...update }
Merge(current, update) ==
    [k \in DOMAIN current \cup DOMAIN update |->
        IF k \in DOMAIN update THEN update[k] ELSE current[k]]

(***************************************************************************)
(* LangChain messages.                                                     *)
(***************************************************************************)
HumanMessage(content) ==
    [type |-> "human", content |-> content, tool_calls |-> <<>>,
     tool_call_id |-> NoId, name |-> "undefined"]

AIMessage(content, tool_calls) ==
    [type |-> "ai", content |-> content, tool_calls |-> tool_calls,
     tool_call_id |-> NoId, name |-> "undefined"]

ToolMessage(content, tool_call_id, name) ==
    [type |-> "tool", content |-> content, tool_calls |-> <<>>,
     tool_call_id |-> tool_call_id, name |-> name]

(***************************************************************************)
(* The database behind Prisma. Rows are kept in insertion order; every row *)
(* of one statement gets the statement's time as createdAt (the code       *)
(* passes no createdAt, the column default is the database's now()), and   *)
(* the clock advances between two statements.                              *)
(***************************************************************************)
EmptyDb ==
    [conversations |-> 0, messages |-> <<>>, toolExecutions |-> <<>>,
     calls |-> 0, failed |-> FALSE, faults |-> 0, reads |-> 0]

\* one write statement sent to the database through the Prisma client
PrismaWrite(d, ok) ==
    [d EXCEPT !.calls = @ + 1, !.failed = @ \/ ~ok, !.faults = IF ok THEN @ ELSE @ + 1]

\* one query sent to the database through the Prisma client
PrismaRead(d) == [d EXCEPT !.reads = @ + 1]

getPrismaClient ==
    IF ~env.DATABASE_URL THEN "null" ELSE "client"

mapMessageRole(message) ==
    IF message.type = "human" THEN "USER"
    ELSE IF message.type = "ai" THEN "ASSISTANT"
    ELSE IF message.type = "tool" THEN "TOOL"
    ELSE "USER"

\* the row data saveMessages builds for one message
MessageData(message) ==
    [role |-> mapMessageRole(message),
     content |-> message.content,
     metadata |-> [tool_calls |-> IF message.type = "ai" THEN message.tool_calls ELSE <<>>,
                   tool_call_id |-> IF message.type = "tool" THEN message.tool_call_id ELSE NoId,
                   name |-> IF message.type = "tool" THEN message.name ELSE "undefined"]]

\* the message getConversationMessages builds from one row
RowToMessage(row) ==
    IF row.role = "USER" THEN HumanMessage(row.content)
    ELSE IF row.role = "ASSISTANT" THEN AIMessage(row.content, row.metadata.tool_calls)
    ELSE IF row.role = "TOOL"
        THEN ToolMessage(row.content, row.metadata.tool_call_id, row.metadata.name)
    ELSE HumanMessage(row.content)

\* chronologicalMessages.map: the messages of a sequence of rows
RowsToMessages(rows) == [i \in 1..Len(rows) |-> RowToMessage(rows[i].data)]

\* ConversationService.createConversation: [db, threw, id]
createConversation(d, ok) ==
    IF prisma = "null" THEN [db |-> d, threw |-> TRUE, id |-> 0]
    ELSE IF ~ok THEN [db |-> PrismaWrite(d, FALSE), threw |-> TRUE, id |-> 0]
    ELSE [db |-> [PrismaWrite(d, TRUE) EXCEPT !.conversations = @ + 1],
          threw |-> FALSE, id |-> d.conversations + 1]

\* ConversationService.saveMessages at time t: [db, threw]
saveMessages(d, msgs, t, ok) ==
    IF prisma = "null" THEN [db |-> d, threw |-> TRUE]
    ELSE IF ~ok THEN [db |-> PrismaWrite(d, FALSE), threw |-> TRUE]
    ELSE [db |-> [PrismaWrite(d, TRUE) EXCEPT
                    !.messages = @ \o [i \in 1..Len(msgs) |->
                        [data |-> MessageData(msgs[i]), createdAt |-> t]]],
          threw |-> FALSE]

\* ConversationService.saveToolExecution: [db, threw]
saveToolExecution(d, toolName, output, status, ok) ==
    IF prisma = "null" THEN [db |-> d, threw |-> TRUE]
    ELSE IF ~ok THEN [db |-> PrismaWrite(d, FALSE), threw |-> TRUE]
    ELSE [db |-> [PrismaWrite(d, TRUE) EXCEPT
                    !.toolExecutions = Append(@,
                        [toolName |-> toolName, output |-> output, status |-> status])],
          threw |-> FALSE]

Orderings(s) ==
    {[i \in 1..Len(s) |-> s[f[i]]] :
        f \in {g \in [1..Len(s) -> 1..Len(s)] : \A i, j \in 1..Len(s) : g[i] = g[j] => i = j}}

\* orderBy: { createdAt: 'desc' }: every order of the rows by descending createdAt;
\* rows of equal createdAt come in an order the database chooses
RECURSIVE OrderByCreatedAtDesc(_)
OrderByCreatedAtDesc(rows) ==
    IF rows = <<>> THEN {<<>>}
    ELSE LET t == Last(rows).createdAt
             first == CHOOSE i \in 1..Len(rows) :
                         /\ rows[i].createdAt = t
                         /\ \A j \in 1..(i - 1) : rows[j].createdAt # t
         IN  {p \o r : p \in Orderings(SubSeq(rows, first, Len(rows))),
                       r \in OrderByCreatedAtDesc(SubSeq(rows, 1, first - 1))}

\* take: limit
Take(s, limit) == SubSeq(s, 1, Min(limit, Len(s)))

\* ConversationService.getConversationMessages: the results the call can return
getConversationMessages(d, limit, ok) ==
    IF prisma = "null" \/ ~ok THEN {<<>>}
    ELSE {RowsToMessages(Reverse(Take(found, limit))) :
            found \in OrderByCreatedAtDesc(d.messages)}

(***************************************************************************)
(* MemoryStorageService: the conversations Map as a function from id to    *)
(* conversation. An id is <<Date.now(), random suffix>>.                   *)
(***************************************************************************)
MemHas(c, id) == id \in DOMAIN c

\* the conversation createConversation builds
MemConversation(id) ==
    [id |-> id, messages |-> <<>>, toolCalls |-> <<>>, state |-> "undefined"]

\* MemoryStorageService.createConversation at Date.now() = t with the random suffix
\* r: [conversations, conversation]
memCreateConversation(c, t, r) ==
    [conversations |-> (<<t, r>> :> MemConversation(<<t, r>>)) @@ c,
     conversation |-> MemConversation(<<t, r>>)]

\* MemoryStorageService.getConversation: the conversation, or null (found is FALSE)
memGetConversation(c, id) ==
    IF MemHas(c, id) THEN [found |-> TRUE, conversation |-> c[id]] ELSE [found |-> FALSE]

\* MemoryStorageService.mapMessageRole
memMapMessageRole(message) ==
    IF message.type = "human" THEN "USER"
    ELSE IF message.type = "ai" THEN "ASSISTANT"
    ELSE IF message.type = "tool" THEN "TOOL"
    ELSE "USER"

\* MemoryStorageService.saveMessages at time t: [conversations, messageIdCounter]
memSaveMessages(c, counter, id, msgs, t) ==
    IF ~MemHas(c, id) THEN [conversations |-> c, messageIdCounter |-> counter]
    ELSE LET messageData ==
                 [i \in 1..Len(msgs) |->
                     [id |-> counter + i,
                      conversationId |-> id,
                      role |-> memMapMessageRole(msgs[i]),
                      content |-> msgs[i].content,
                      metadata |->
                          [tool_calls |-> IF msgs[i].type = "ai" THEN msgs[i].tool_calls ELSE <<>>,
                           tool_call_id |-> IF msgs[i].type = "tool"
                                               THEN msgs[i].tool_call_id ELSE NoId,
                           name |-> IF msgs[i].type = "tool" THEN msgs[i].name ELSE "undefined"],
                      createdAt |-> t]]
         IN  [conversations |-> [c EXCEPT ![id].messages = @ \o messageData],
              messageIdCounter |-> counter + Len(msgs)]

\* MemoryStorageService.saveToolExecution: [conversations, toolExecutionIdCounter]
memSaveToolExecution(c, counter, id, toolName, output, status, t) ==
    IF ~MemHas(c, id) THEN [conversations |-> c, toolExecutionIdCounter |-> counter]
    ELSE [conversations |->
              [c EXCEPT ![id].toolCalls =
                  Append(@, [id |-> counter + 1, conversationId |-> id, toolName |-> toolName,
                             output |-> output, status |-> status, createdAt |-> t])],
          toolExecutionIdCounter |-> counter + 1]

\* MemoryStorageService.updateState
memUpdateState(c, id, state) ==
    IF ~MemHas(c, id) THEN c ELSE [c EXCEPT ![id].state = state]

\* the message getConversationMessages builds from one stored message
memRowToMessage(msg) ==
    IF msg.role = "USER" THEN HumanMessage(msg.content)
    ELSE IF msg.role = "ASSISTANT" THEN AIMessage(msg.content, msg.metadata.tool_calls)
    ELSE IF msg.role = "TOOL"
        THEN ToolMessage(msg.content, msg.metadata.tool_call_id, msg.metadata.name)
    ELSE HumanMessage(msg.content)

\* MemoryStorageService.getConversationMessages
memGetConversationMessages(c, id, limit) ==
    IF ~MemHas(c, id) THEN <<>>
    ELSE LET recent == Slice(c[id].messages, 0 - limit)
         IN  [i \in 1..Len(recent) |-> memRowToMessage(recent[i])]

(***************************************************************************)
(* MCPService: the servers Map as a sequence in insertion order.           *)
(***************************************************************************)
ServerNames == {"filesystem", "github"}

\* the tools each provider advertises
ProviderTools(name) ==
    IF name = "filesystem" THEN <<"read_file">> ELSE <<"create_issue">>

MapHas(m, key) == \E i \in 1..Len(m) : m[i].name = key

MapGet(m, key) == m[CHOOSE i \in 1..Len(m) : m[i].name = key]

MapSet(m, key, value) ==
    IF MapHas(m, key)
        THEN [i \in 1..Len(m) |-> IF m[i].name = key THEN value ELSE m[i]]
        ELSE Append(m, value)

MapDelete(m, key) == SelectSeq(m, LAMBDA srv : srv.name # key)

\* Set.prototype.add and delete on an insertion-ordered Set
SetAdd(set, x) == IF x \in Range(set) THEN set ELSE Append(set, x)

SetDelete(set, x) == SelectSeq(set, LAMBDA y : y # x)

\* MCPService.connectServer: [servers, connected, threw]
connectServer(m, connected, name, ok) ==
    IF ok THEN [servers |-> MapSet(m, name, [name |-> name, client |-> TRUE,
                                              cached |-> FALSE, tools |-> <<>>]),
                connected |-> SetAdd(connected, name), threw |-> FALSE]
    ELSE [servers |-> m, connected |-> connected, threw |-> TRUE]

\* the reply of a server's client to listTools: it throws, or returns its tools
Reply(ok, tools) == [ok |-> ok, tools |-> tools]

\* the replies of the providers main() connects
ProviderReplies(ok) == [name \in ServerNames |-> Reply(ok, ProviderTools(name))]

\* listTools as it would be if it returned the tools without caching them on the
\* server
listToolsUncached(m, serverName, reply) ==
    IF MapHas(m, serverName) /\ MapGet(m, serverName).client /\ reply.ok
        THEN [servers |-> m, tools |-> reply.tools]
        ELSE [servers |-> m, tools |-> <<>>]

\* MCPService.listTools: [servers, tools], the Map after the call (the cache is set
\* on success) and the returned tools
listTools(m, serverName, reply) ==
    IF MapHas(m, serverName) /\ MapGet(m, serverName).client /\ reply.ok
        THEN [servers |-> MapSet(m, serverName, [MapGet(m, serverName) EXCEPT
                                      !.cached = TRUE, !.tools = reply.tools]),
              tools |-> reply.tools]
        ELSE [servers |-> m, tools |-> <<>>]

\* getAllTools as it would be if a failed listing ended the aggregation
RECURSIVE getAllToolsAbort(_, _, _)
getAllToolsAbort(m, connected, replies) ==
    IF connected = <<>> \/ ~replies[Head(connected)].ok THEN [servers |-> m, tools |-> <<>>]
    ELSE LET first == listTools(m, Head(connected), replies[Head(connected)])
             rest == getAllToolsAbort(first.servers, Tail(connected), replies)
         IN  [servers |-> rest.servers, tools |-> first.tools \o rest.tools]

\* MCPService.getAllTools: [servers, tools] after listing every connected server in
\* the order of the Set
RECURSIVE getAllTools(_, _, _)
getAllTools(m, connected, replies) ==
    IF connected = <<>> THEN [servers |-> m, tools |-> <<>>]
    ELSE LET first == listTools(m, Head(connected), replies[Head(connected)])
             rest == getAllTools(first.servers, Tail(connected), replies)
         IN  [servers |-> rest.servers, tools |-> first.tools \o rest.tools]

\* getServerForTool as it would be if the last matching server won
getServerForToolLast(m, toolName) ==
    IF \E i \in 1..Len(m) : m[i].cached /\ toolName \in Range(m[i].tools)
        THEN m[CHOOSE i \in 1..Len(m) :
                  /\ m[i].cached /\ toolName \in Range(m[i].tools)
                  /\ \A j \in (i + 1)..Len(m) :
                        ~(m[j].cached /\ toolName \in Range(m[j].tools))].name
        ELSE "null"

\* MCPService.getServerForTool
getServerForTool(m, toolName) ==
    IF \E i \in 1..Len(m) : m[i].cached /\ toolName \in Range(m[i].tools)
        THEN m[CHOOSE i \in 1..Len(m) :
                  /\ m[i].cached /\ toolName \in Range(m[i].tools)
                  /\ \A j \in 1..(i - 1) : ~(m[j].cached /\ toolName \in Range(m[j].tools))].name
        ELSE "null"

(***************************************************************************)
(* Tool execution of toolUseNode: the payload a call produces.             *)
(***************************************************************************)
Result(value) == [kind |-> "ok", value |-> value]

Error(message) == [kind |-> "error", value |-> message]

\* typeof result === 'string' ? result : JSON.stringify(result), and
\* JSON.stringify({ error: errorObj.message })
Content(payload) ==
    IF payload.kind = "ok" THEN payload.value ELSE "{error:" \o payload.value \o "}"

\* WebSearchService.executeTool
executeTool(ok) ==
    IF ~env.TAVILY_API_KEY THEN Error("Web search not configured")
    ELSE IF ok THEN Result("Search Results") ELSE Error("Web search failed")

\* MCPService.callTool
callTool(m, serverName, toolName, ok) ==
    IF ~(MapHas(m, serverName) /\ MapGet(m, serverName).client) THEN Error("not connected")
    ELSE IF ok THEN Result("{content}") ELSE Error("tool failed")

\* lines 311-332 of toolUseNode as they would be if the registry were asked first
\* and web search served only the names no provider advertises
ExecuteRegistryFirst(m, toolName, ok) ==
    IF getServerForTool(m, toolName) # "null"
        THEN callTool(m, getServerForTool(m, toolName), toolName, ok)
    ELSE IF toolName = "web_search" THEN executeTool(ok)
    ELSE Error("No server found for tool")

\* lines 311-332 of toolUseNode: a payload of kind "error" is a throw
Execute(m, toolName, ok) ==
    IF toolName = "web_search" THEN executeTool(ok)
    ELSE IF getServerForTool(m, toolName) = "null" THEN Error("No server found for tool")
    ELSE callTool(m, getServerForTool(m, toolName), toolName, ok)

(***************************************************************************)
(* The model gateway: GeminiService.generateResponse builds the response   *)
(* from the text and the function calls of the reply.                      *)
(***************************************************************************)
Texts == {"", "Done"}

ToolNames == {"read_file", "web_search"}

UserInputs == {"list files"}

\* the replies of the model: a failure, or a text with up to n function calls
Replies(n) ==
    {[failed |-> TRUE, text |-> "", functionCalls |-> <<>>]}
    \cup {[failed |-> FALSE, text |-> t, functionCalls |-> fc] :
            t \in Texts, fc \in SeqsUpTo(ToolNames, n)}

generateResponse(reply) ==
    [failed |-> reply.failed,
     text |-> reply.text,
     function_calls |-> reply.functionCalls,
     stop_reason |-> IF Len(reply.functionCalls) > 0 THEN "tool_use" ELSE "end_turn"]

\* modelNode as it would be if the id of a tool call left out the index of the call
ModelDecisionWithoutIndex(resp, t) ==
    IF resp.stop_reason = "tool_use" /\ Len(resp.function_calls) > 0
        THEN [message |-> AIMessage(resp.text,
                             [i \in 1..Len(resp.function_calls) |->
                                 [id |-> <<t, 0>>, name |-> resp.function_calls[i]]]),
              shouldContinue |-> TRUE]
        ELSE [message |-> AIMessage(resp.text, <<>>), shouldContinue |-> FALSE]

\* modelNode, lines 236-267: [message, shouldContinue] for a response at time t;
\* the id of call number i is `call_${Date.now()}_${i}`
ModelDecision(resp, t) ==
    IF resp.stop_reason = "tool_use" /\ Len(resp.function_calls) > 0
        THEN [message |-> AIMessage(resp.text,
                             [i \in 1..Len(resp.function_calls) |->
                                 [id |-> <<t, i - 1>>, name |-> resp.function_calls[i]]]),
              shouldContinue |-> TRUE]
        ELSE [message |-> AIMessage(resp.text, <<>>), shouldContinue |-> FALSE]

shouldContinueToTools(flag) == IF flag THEN "continue" ELSE "end"

\* graph.invoke(initialState) runs under the default recursion limit of the graph
\* runtime: when a node has finished as superstep number steps and another node is
\* to run, the run goes on unless steps has reached the limit, and then invoke
\* throws GraphRecursionError
NextNode(next, steps) ==
    IF next # "end" /\ steps >= RecursionLimit THEN "threw" ELSE next

\* graph.ts: the conditional edge after 'model'
ModelEdge(flag) == IF shouldContinueToTools(flag) = "continue" THEN "toolUse" ELSE "end"

(***************************************************************************)
(* The callers of MCPService.disconnectAll(): the finally block of main()  *)
(* and the handlers of SIGINT and SIGTERM. A call in flight is "waiting"   *)
(* for the disconnectServer calls it started: racing holds the servers     *)
(* whose Promise.race has not settled, abandoned those whose race the      *)
(* timer won.                                                              *)
(***************************************************************************)
Signals == {"SIGINT", "SIGTERM"}

Handlers == {"finally"} \cup Signals

NoTeardown == [state |-> "idle", racing |-> {}, abandoned |-> {}]

(***************************************************************************)
(* The transports of one server name. Every call of connectServer creates  *)
(* a transport, numbered in the order of the calls: created counts them,   *)
(* connecting holds those whose client.connect is awaited, open those that *)
(* have not closed, current is the transport of the client the servers Map *)
(* holds for the name (0 when it holds none), and closing holds the        *)
(* transports of the clients on which a disconnectServer called close and  *)
(* awaits the race.                                                        *)
(***************************************************************************)
NoTransports == [created |-> 0, connecting |-> {}, open |-> {}, current |-> 0, closing |-> {}]

(***************************************************************************)
(* Initial state: the process before main() runs.                          *)
(***************************************************************************)
Envs ==
    {[DATABASE_URL |-> d, GITHUB_TOKEN |-> g, TAVILY_API_KEY |-> t] :
        d \in BOOLEAN, g \in {FALSE}, t \in BOOLEAN}

InitWith(E) ==
    /\ env \in E
    /\ prisma = "null"
    /\ db = EmptyDb
    /\ now = 1
    /\ memConversations = <<>>
    /\ messageIdCounter = 0
    /\ toolExecutionIdCounter = 0
    /\ lastCall = NoCall
    /\ servers = <<>>
    /\ connectedServers = <<>>
    /\ closeCalls = [name \in ServerNames |-> 0]
    /\ teardown = [h \in Handlers |-> NoTeardown]
    /\ transports = [name \in ServerNames |-> NoTransports]
    /\ pc = "start"
    /\ conversation = 0
    /\ turn = 0
    /\ superstep = 0
    /\ requested = 0
    /\ historyLength = 0
    /\ turnStartDb = 0
    /\ messages = <<>>
    /\ shouldContinue = TRUE
    /\ toolResults = <<>>
    /\ response = NoResponse
    /\ callIdx = 1
    /\ toolMessages = <<>>
    /\ localResults = <<>>
    /\ executed = <<>>

Init == InitWith(Envs)

memVars == <<memConversations, messageIdCounter, toolExecutionIdCounter, lastCall>>

shutdownVars == <<closeCalls, teardown, transports>>

engineVars == <<turn, superstep, requested, historyLength, turnStartDb, messages, shouldContinue,
                toolResults, response, callIdx, toolMessages, localResults, executed>>

(***************************************************************************)
(* main(): startup.                                                        *)
(***************************************************************************)
\* index.ts 149-158: isDatabaseAvailable() creates the Prisma client and probes it
CheckDatabase(clientOk) ==
    /\ pc = "start"
    /\ prisma' = IF clientOk THEN getPrismaClient ELSE "null"
    /\ now' = now + 1
    /\ pc' = "connect"
    /\ UNCHANGED <<env, db, memVars, shutdownVars, servers, connectedServers, conversation,
                   engineVars>>

\* index.ts 160-222: connect the providers, then list their tools
ConnectServers(fsOk, ghOk, listOk) ==
    /\ pc = "connect"
    /\ LET fs == connectServer(servers, connectedServers, "filesystem", fsOk)
           gh == IF env.GITHUB_TOKEN
                    THEN connectServer(fs.servers, fs.connected, "github", ghOk)
                    ELSE fs
       IN  /\ servers' = getAllTools(gh.servers, gh.connected, ProviderReplies(listOk)).servers
           /\ connectedServers' = gh.connected
    /\ pc' = "create"
    /\ UNCHANGED <<env, prisma, db, now, memVars, shutdownVars, conversation, engineVars>>

\* index.ts 224-225 and 248-251: a throw of createConversation is fatal
CreateConversation(ok) ==
    /\ pc = "create"
    /\ LET c == createConversation(db, ok)
       IN  /\ db' = c.db
           /\ conversation' = c.id
           /\ pc' = IF c.threw THEN "exit1" ELSE "prompt"
    /\ now' = now + 1
    /\ UNCHANGED <<env, prisma, memVars, shutdownVars, servers, connectedServers, engineVars>>

\* the loop of main() as it would be if it prompted again without awaiting
\* processUserInput
AtPromptNotAwaiting == pc \in {"prompt", "end", "threw", "userInput", "model", "toolUse"}

\* index.ts 228-247: main() is at cli.promptUser(): the conversation is created and
\* the previous processUserInput, if any, has returned or thrown
AtPrompt == pc \in {"prompt", "end", "threw"}

\* transport.onclose of the transport connectServer created for name
onclose(connected, name) == SetDelete(connected, name)

\* disconnectServer as it would be without the test of server?.client: close is
\* called and the name deleted whatever the Map holds
disconnectServerUnguarded(m, connected, name) ==
    [servers |-> MapDelete(m, name), connected |-> SetDelete(connected, name),
     closed |-> TRUE]

\* MCPService.disconnectServer, from its call to its return: [servers, connected,
\* closed], closed telling whether client.close() was called
disconnectServer(m, connected, name) ==
    IF MapHas(m, name) /\ MapGet(m, name).client
        THEN [servers |-> MapDelete(m, name), connected |-> SetDelete(connected, name),
              closed |-> TRUE]
        ELSE [servers |-> m, connected |-> connected, closed |-> FALSE]

\* MCPService.disconnectAll, from its call to its return: disconnectServer for every
\* connected server; closed is the set of the servers whose client was closed
RECURSIVE disconnectEach(_, _, _)
disconnectEach(m, connected, names) ==
    IF names = <<>> THEN [servers |-> m, connected |-> connected, closed |-> {}]
    ELSE LET d == disconnectServer(m, connected, Head(names))
             rest == disconnectEach(d.servers, d.connected, Tail(names))
         IN  [servers |-> rest.servers, connected |-> rest.connected,
              closed |-> (IF d.closed THEN {Head(names)} ELSE {}) \cup rest.closed]

disconnectAll(m, connected) == disconnectEach(m, connected, connected)

\* the calls of client.close() counted after the clients of the servers in closed
\* were closed once more
CountCloses(calls, closed) ==
    [name \in ServerNames |-> IF name \in closed THEN calls[name] + 1 ELSE calls[name]]

\* index.ts 18-21, 239-241, 252-258: '/exit' leaves the loop, the finally block cleans up
Exit ==
    /\ AtPrompt
    /\ servers' = disconnectAll(servers, connectedServers).servers
    /\ connectedServers' = disconnectAll(servers, connectedServers).connected
    /\ closeCalls' = CountCloses(closeCalls, disconnectAll(servers, connectedServers).closed)
    /\ pc' = "exit0"
    /\ UNCHANGED <<env, prisma, db, now, memVars, teardown, transports, conversation,
                   engineVars>>

(***************************************************************************)
(* processUserInput and the graph nodes.                                   *)
(***************************************************************************)
\* index.ts 36-54: load the history, build the initial state, invoke the graph
StartTurn(userInput, ok) ==
    /\ AtPrompt
    /\ \E conversationHistory \in getConversationMessages(db, HistoryLimit, ok) :
        /\ messages' = conversationHistory \o <<HumanMessage(userInput)>>
        /\ historyLength' = Len(conversationHistory)
    /\ shouldContinue' = TRUE
    /\ toolResults' = <<>>
    /\ db' = IF prisma = "null" THEN db ELSE PrismaRead(db)
    /\ turnStartDb' = Len(db.messages)
    /\ turn' = turn + 1
    /\ superstep' = 0
    /\ requested' = 0
    /\ now' = now + 1
    /\ pc' = "userInput"
    /\ UNCHANGED <<env, prisma, memVars, shutdownVars, servers, connectedServers, conversation,
                   response, callIdx, toolMessages, localResults, executed>>

\* userInputNode: a failure of the save is swallowed
UserInputNode(ok) ==
    /\ pc = "userInput"
    /\ LET latestMessage == Last(messages)
       IN  db' = IF latestMessage.type = "human"
                   THEN saveMessages(db, <<latestMessage>>, now, ok).db
                   ELSE db
    /\ now' = now + 1
    /\ superstep' = superstep + 1
    /\ pc' = NextNode("model", superstep + 1)
    /\ UNCHANGED <<env, prisma, memVars, shutdownVars, servers, connectedServers,
                   conversation, turn, requested, historyLength, turnStartDb, messages,
                   shouldContinue, toolResults, response, callIdx, toolMessages,
                   localResults, executed>>

\* modelNode: list the tools, call the model, save the new message; the catch
\* block saves the error message, and a throw of that save leaves the graph
ModelNode(reply, listOk, ok1, ok2) ==
    /\ pc = "model"
    /\ servers' = getAllTools(servers, connectedServers, ProviderReplies(listOk)).servers
    /\ response' = generateResponse(reply)
    /\ LET resp == generateResponse(reply)
           dec == ModelDecision(resp, now)
           s1 == saveMessages(db, <<dec.message>>, now, ok1)
           caught == resp.failed \/ s1.threw
           errorMessage == AIMessage(ErrorText, <<>>)
           d1 == IF resp.failed THEN db ELSE s1.db
           s2 == saveMessages(d1, <<errorMessage>>, now + 1, ok2)
       IN  IF ~caught
               THEN /\ db' = s1.db
                    /\ messages' = messages \o <<dec.message>>
                    /\ shouldContinue' = dec.shouldContinue
                    /\ pc' = NextNode(ModelEdge(dec.shouldContinue), superstep + 1)
                    /\ requested' = requested + Len(resp.function_calls)
               ELSE /\ db' = s2.db
                    /\ requested' = requested
                    /\ IF s2.threw
                          THEN /\ pc' = "threw"
                               /\ UNCHANGED <<messages, shouldContinue>>
                          ELSE /\ messages' = messages \o <<errorMessage>>
                               /\ shouldContinue' = FALSE
                               /\ pc' = ModelEdge(FALSE)
    /\ now' = now + 2
    /\ superstep' = superstep + 1
    /\ callIdx' = 1
    /\ toolMessages' = <<>>
    /\ localResults' = <<>>
    /\ executed' = <<>>
    /\ UNCHANGED <<env, prisma, memVars, shutdownVars, connectedServers, conversation, turn,
                   historyLength, turnStartDb, toolResults>>

\* toolUseNode, lines 355-381: the catch block of one tool call, entered with the
\* local state (tm, lr, d); a throw of its save leaves the loop
CallCatch(tm, lr, d, toolCall, err, ok) ==
    LET s == saveToolExecution(d, toolCall.name, err, "FAILED", ok)
    IN  [toolMessages |-> Append(tm, ToolMessage(Content(err), toolCall.id, toolCall.name)),
         localResults |-> Merge(lr, toolCall.id :> err),
         db |-> s.db,
         threw |-> s.threw]

\* toolUseNode, lines 307-382: one iteration of the loop over the tool calls
CallStep(tm, lr, d, m, toolCall, ok, ok1, ok2) ==
    LET result == Execute(m, toolCall.name, ok)
        s1 == saveToolExecution(d, toolCall.name, result, "COMPLETED", ok1)
        tm1 == Append(tm, ToolMessage(Content(result), toolCall.id, toolCall.name))
        lr1 == Merge(lr, toolCall.id :> result)
    IN  IF result.kind = "error"
            THEN CallCatch(tm, lr, d, toolCall, result, ok2)
        ELSE IF s1.threw
            THEN CallCatch(tm1, lr1, s1.db, toolCall, Error("database error"), ok2)
        ELSE [toolMessages |-> tm1, localResults |-> lr1, db |-> s1.db, threw |-> FALSE]

\* toolUseNode: the next tool call of the last message; the outer catch returns {}
ToolUseCall(ok, ok1, ok2) ==
    /\ pc = "toolUse"
    /\ Last(messages).type = "ai"
    /\ callIdx <= Len(Last(messages).tool_calls)
    /\ LET c == CallStep(toolMessages, localResults, db, servers,
                         Last(messages).tool_calls[callIdx], ok, ok1, ok2)
       IN  /\ db' = c.db
           /\ executed' = Append(executed, Execute(servers, Last(messages).tool_calls[callIdx].name, ok))
           /\ IF c.threw
                 THEN /\ pc' = NextNode("model", superstep + 1)
                      /\ superstep' = superstep + 1
                      /\ callIdx' = 1
                      /\ toolMessages' = <<>>
                      /\ localResults' = <<>>
                 ELSE /\ pc' = pc
                      /\ superstep' = superstep
                      /\ callIdx' = callIdx + 1
                      /\ toolMessages' = c.toolMessages
                      /\ localResults' = c.localResults
    /\ now' = now + 2
    /\ UNCHANGED <<env, prisma, memVars, shutdownVars, servers, connectedServers, conversation,
                   turn, requested, historyLength, turnStartDb, messages, shouldContinue,
                   toolResults, response>>

\* toolUseNode, lines 385-399: save the tool messages and return them
ToolUseReturn(ok) ==
    /\ pc = "toolUse"
    /\ Last(messages).type = "ai" => callIdx > Len(Last(messages).tool_calls)
    /\ LET s == IF Len(toolMessages) > 0
                  THEN saveMessages(db, toolMessages, now, ok)
                  ELSE [db |-> db, threw |-> FALSE]
       IN  /\ db' = s.db
           /\ IF s.threw
                 THEN UNCHANGED <<messages, toolResults>>
                 ELSE /\ messages' = messages \o toolMessages
                      /\ toolResults' = Merge(toolResults, localResults)
    /\ now' = now + 1
    /\ superstep' = superstep + 1
    /\ pc' = NextNode("model", superstep + 1)
    /\ callIdx' = 1
    /\ toolMessages' = <<>>
    /\ localResults' = <<>>
    /\ UNCHANGED <<env, prisma, memVars, shutdownVars, servers, connectedServers, conversation,
                   turn, requested, historyLength, turnStartDb, shouldContinue, response,
                   executed>>

(***************************************************************************)
(* Spec: the process from its start through its first turn, under every    *)
(* outcome of its collaborators: the model fails or replies, each tool     *)
(* call succeeds or fails, and up to MaxDbFaults database statements fail. *)
(***************************************************************************)
\* the outcomes of the next database statements: at most MaxDbFaults failures in a run
DbOutcomes == IF db.faults < MaxDbFaults THEN BOOLEAN ELSE {TRUE}

DbOutcomes2 ==
    {o \in BOOLEAN \X BOOLEAN :
        db.faults + (IF o[1] THEN 0 ELSE 1) + (IF o[2] THEN 0 ELSE 1) <= MaxDbFaults}

Next ==
    \/ \E clientOk \in BOOLEAN : CheckDatabase(clientOk)
    \/ \E fsOk, ghOk \in BOOLEAN : ConnectServers(fsOk, ghOk, TRUE)
    \/ \E ok \in DbOutcomes : CreateConversation(ok)
    \/ Exit
    \/ \E userInput \in UserInputs, ok \in DbOutcomes : pc = "prompt" /\ StartTurn(userInput, ok)
    \/ \E ok \in DbOutcomes : UserInputNode(ok)
    \/ \E reply \in Replies(MaxCalls - requested), o \in DbOutcomes2 :
          ModelNode(reply, TRUE, o[1], o[2])
    \/ \E ok \in BOOLEAN, o \in DbOutcomes2 : ToolUseCall(ok, o[1], o[2])
    \/ \E ok \in DbOutcomes : ToolUseReturn(ok)

Spec == Init /\ [][Next]_vars

(***************************************************************************)
(* HistorySpec: up to MaxTurns turns of one process on a healthy database  *)
(* with every provider connected: the model answers, or requests           *)
(* read_file up to MaxCalls times in a turn, and every tool call succeeds. *)
(***************************************************************************)
HistoryEnvs ==
    {[DATABASE_URL |-> TRUE, GITHUB_TOKEN |-> FALSE, TAVILY_API_KEY |-> TRUE]}

HistoryReplies(n) ==
    {r \in Replies(n) :
        /\ ~r.failed
        /\ Range(r.functionCalls) \subseteq {"read_file"}
        /\ r.text = (IF r.functionCalls = <<>> THEN "Done" ELSE "")}

HistoryInit == InitWith(HistoryEnvs)

HistoryNext ==
    \/ CheckDatabase(TRUE)
    \/ ConnectServers(TRUE, TRUE, TRUE)
    \/ CreateConversation(TRUE)
    \/ Exit
    \/ \E userInput \in UserInputs : turn < MaxTurns /\ StartTurn(userInput, TRUE)
    \/ UserInputNode(TRUE)
    \/ \E reply \in HistoryReplies(MaxCalls - requested) : ModelNode(reply, TRUE, TRUE, TRUE)
    \/ ToolUseCall(TRUE, TRUE, TRUE)
    \/ ToolUseReturn(TRUE)

HistorySpec == HistoryInit /\ [][HistoryNext]_vars

(***************************************************************************)
(* StoreSpec: a caller of the two conversation stores. It calls the        *)
(* methods of MemoryStorageService on conversations the store knows and on *)
(* one it does not know, with up to MaxConversations conversations, MaxLog *)
(* messages and one tool execution in all, while the clock reaches at most *)
(* MaxNow; and it makes up to MaxDbCalls calls of the write methods of     *)
(* ConversationService for a conversation the database does not hold.      *)
(* lastCall records the arguments and the return of the latest call.       *)
(***************************************************************************)
\* Math.random().toString(36).substr(2, 9)
RandomSuffixes == {"a", "b"}

\* an id no createConversation returned: the clock starts after 0
UnknownId == <<0, "a">>

StoreMessages ==
    {HumanMessage("hi"), AIMessage("", <<[id |-> <<1, 0>>, name |-> "read_file"]>>)}

Batches == SeqsUpTo(StoreMessages, 2) \ {<<>>}

Limits == {0, 1, MaxLog + 1}

StoreInit ==
    /\ env \in HistoryEnvs
    /\ prisma = getPrismaClient
    /\ db = EmptyDb
    /\ now = 1
    /\ memConversations = <<>>
    /\ messageIdCounter = 0
    /\ toolExecutionIdCounter = 0
    /\ lastCall = NoCall
    /\ servers = <<>>
    /\ connectedServers = <<>>
    /\ closeCalls = [name \in ServerNames |-> 0]
    /\ teardown = [h \in Handlers |-> NoTeardown]
    /\ transports = [name \in ServerNames |-> NoTransports]
    /\ pc = "caller"
    /\ conversation = 0
    /\ turn = 0
    /\ superstep = 0
    /\ requested = 0
    /\ historyLength = 0
    /\ turnStartDb = 0
    /\ messages = <<>>
    /\ shouldContinue = TRUE
    /\ toolResults = <<>>
    /\ response = NoResponse
    /\ callIdx = 1
    /\ toolMessages = <<>>
    /\ localResults = <<>>
    /\ executed = <<>>

storeUnchanged ==
    <<env, prisma, servers, connectedServers, shutdownVars, pc, conversation, engineVars>>

\* the clock advances between two calls
Tick ==
    /\ now < MaxNow
    /\ now' = now + 1
    /\ UNCHANGED <<db, memVars, storeUnchanged>>

MemCreateConversation(r) ==
    /\ \/ MemHas(memConversations, <<now, r>>)
       \/ Cardinality(DOMAIN memConversations) < MaxConversations
    /\ memConversations' = memCreateConversation(memConversations, now, r).conversations
    /\ lastCall' = [op |-> "createConversation", id |-> <<now, r>>,
                    existed |-> MemHas(memConversations, <<now, r>>),
                    result |-> memCreateConversation(memConversations, now, r).conversation]
    /\ UNCHANGED <<db, now, messageIdCounter, toolExecutionIdCounter, storeUnchanged>>

MemSaveMessages(id, msgs) ==
    /\ messageIdCounter + Len(msgs) <= MaxLog
    /\ LET r == memSaveMessages(memConversations, messageIdCounter, id, msgs, now)
       IN  /\ memConversations' = r.conversations
           /\ messageIdCounter' = r.messageIdCounter
    /\ lastCall' = [op |-> "saveMessages", id |-> id, known |-> MemHas(memConversations, id),
                    threw |-> FALSE]
    /\ UNCHANGED <<db, now, toolExecutionIdCounter, storeUnchanged>>

MemSaveToolExecution(id, status) ==
    /\ toolExecutionIdCounter < 1
    /\ LET r == memSaveToolExecution(memConversations, toolExecutionIdCounter, id,
                                     "read_file", Result("{content}"), status, now)
       IN  /\ memConversations' = r.conversations
           /\ toolExecutionIdCounter' = r.toolExecutionIdCounter
    /\ lastCall' = [op |-> "saveToolExecution", id |-> id,
                    known |-> MemHas(memConversations, id), threw |-> FALSE]
    /\ UNCHANGED <<db, now, messageIdCounter, storeUnchanged>>

MemUpdateState(id, state) ==
    /\ memConversations' = memUpdateState(memConversations, id, state)
    /\ lastCall' = [op |-> "updateState", id |-> id, known |-> MemHas(memConversations, id),
                    threw |-> FALSE]
    /\ UNCHANGED <<db, now, messageIdCounter, toolExecutionIdCounter, storeUnchanged>>

MemGetConversation(id) ==
    /\ lastCall' = [op |-> "getConversation", id |-> id,
                    known |-> MemHas(memConversations, id), threw |-> FALSE,
                    result |-> memGetConversation(memConversations, id)]
    /\ UNCHANGED <<db, now, memConversations, messageIdCounter, toolExecutionIdCounter,
                   storeUnchanged>>

MemGetConversationMessages(id, limit) ==
    /\ lastCall' = [op |-> "getConversationMessages", id |-> id,
                    known |-> MemHas(memConversations, id), threw |-> FALSE,
                    limit |-> limit,
                    log |-> IF MemHas(memConversations, id)
                               THEN memConversations[id].messages ELSE <<>>,
                    result |-> memGetConversationMessages(memConversations, id, limit)]
    /\ UNCHANGED <<db, now, memConversations, messageIdCounter, toolExecutionIdCounter,
                   storeUnchanged>>

\* ConversationService.saveMessages for a conversation the database does not hold
DbSaveMessages(id, msgs, ok) ==
    /\ db.calls < MaxDbCalls
    /\ db' = saveMessages(db, msgs, now, ok).db
    /\ lastCall' = [op |-> "ConversationService.saveMessages", id |-> id, known |-> FALSE,
                    threw |-> saveMessages(db, msgs, now, ok).threw]
    /\ UNCHANGED <<now, memConversations, messageIdCounter, toolExecutionIdCounter,
                   storeUnchanged>>

\* ConversationService.saveToolExecution for a conversation the database does not hold
DbSaveToolExecution(id, status, ok) ==
    /\ db.calls < MaxDbCalls
    /\ db' = saveToolExecution(db, "read_file", Result("{content}"), status, ok).db
    /\ lastCall' = [op |-> "ConversationService.saveToolExecution", id |-> id,
                    known |-> FALSE,
                    threw |-> saveToolExecution(db, "read_file", Result("{content}"),
                                                status, ok).threw]
    /\ UNCHANGED <<now, memConversations, messageIdCounter, toolExecutionIdCounter,
                   storeUnchanged>>

StoreNext ==
    \/ Tick
    \/ \E r \in RandomSuffixes : MemCreateConversation(r)
    \/ \E id \in DOMAIN memConversations \cup {UnknownId} :
          \/ \E msgs \in Batches : MemSaveMessages(id, msgs)
          \/ MemSaveToolExecution(id, "COMPLETED")
          \/ MemUpdateState(id, "state")
          \/ MemGetConversation(id)
          \/ \E limit \in Limits : MemGetConversationMessages(id, limit)
    \/ \E ok \in DbOutcomes : DbSaveMessages(UnknownId, <<HumanMessage("hi")>>, ok)
    \/ \E ok \in DbOutcomes : DbSaveToolExecution(UnknownId, "COMPLETED", ok)

StoreSpec == StoreInit /\ [][StoreNext]_vars

(***************************************************************************)
(* RegistrySpec: a caller of MCPService. It connects and disconnects the   *)
(* providers, lists their tools (each listing throws or returns one of     *)
(* ToolLists, which may differ from the list before and may name a tool    *)
(* another provider names too), asks for all tools and resolves tool       *)
(* names, while a transport may close at any time.                         *)
(***************************************************************************)
ToolLists == {<<>>, <<"read_file">>, <<"create_issue">>, <<"read_file", "create_issue">>}

ListReplies == {Reply(FALSE, <<>>)} \cup {Reply(TRUE, tools) : tools \in ToolLists}

RequestedNames == {"read_file", "create_issue", "web_search"}

RegistryInit == StoreInit

registryUnchanged ==
    <<env, prisma, db, now, memConversations, messageIdCounter, toolExecutionIdCounter,
      teardown, transports, pc, conversation, engineVars>>

RegConnectServer(name, ok) ==
    /\ servers' = connectServer(servers, connectedServers, name, ok).servers
    /\ connectedServers' = connectServer(servers, connectedServers, name, ok).connected
    /\ lastCall' = [op |-> "connectServer", name |-> name, threw |-> ~ok]
    /\ UNCHANGED <<closeCalls, registryUnchanged>>

\* a call of disconnectServer, awaited; the race with the timer settles whatever
\* close does
RegDisconnectServer(name) ==
    LET d == disconnectServer(servers, connectedServers, name)
    IN  /\ d.closed => closeCalls[name] < MaxCloses
        /\ servers' = d.servers
        /\ connectedServers' = d.connected
        /\ closeCalls' = CountCloses(closeCalls, IF d.closed THEN {name} ELSE {})
        /\ lastCall' = [op |-> "disconnectServer", name |-> name,
                        known |-> MapHas(servers, name), threw |-> FALSE,
                        closed |-> d.closed,
                        before |-> [servers |-> servers, connected |-> connectedServers],
                        after |-> [servers |-> d.servers, connected |-> d.connected]]
        /\ UNCHANGED registryUnchanged

RegDisconnectAll ==
    LET d == disconnectAll(servers, connectedServers)
    IN  /\ \A name \in d.closed : closeCalls[name] < MaxCloses
        /\ servers' = d.servers
        /\ connectedServers' = d.connected
        /\ closeCalls' = CountCloses(closeCalls, d.closed)
        /\ lastCall' = [op |-> "disconnectAll"]
        /\ UNCHANGED registryUnchanged

\* the transport of a connected server closes
TransportClose(name) ==
    /\ name \in Range(connectedServers)
    /\ connectedServers' = onclose(connectedServers, name)
    /\ UNCHANGED <<servers, closeCalls, lastCall, registryUnchanged>>

RegListTools(name, reply) ==
    /\ servers' = listTools(servers, name, reply).servers
    /\ lastCall' = [op |-> "listTools", name |-> name, reply |-> reply,
                    result |-> listTools(servers, name, reply).tools]
    /\ UNCHANGED <<connectedServers, closeCalls, registryUnchanged>>

RegGetAllTools(replies) ==
    /\ servers' = getAllTools(servers, connectedServers, replies).servers
    /\ lastCall' = [op |-> "getAllTools", connected |-> connectedServers,
                    replies |-> replies,
                    result |-> getAllTools(servers, connectedServers, replies).tools]
    /\ UNCHANGED <<connectedServers, closeCalls, registryUnchanged>>

RegGetServerForTool(toolName) ==
    /\ lastCall' = [op |-> "getServerForTool", toolName |-> toolName, servers |-> servers,
                    connected |-> connectedServers,
                    result |-> getServerForTool(servers, toolName)]
    /\ UNCHANGED <<servers, connectedServers, closeCalls, registryUnchanged>>

RegistryNext ==
    \/ \E name \in ServerNames, ok \in BOOLEAN : RegConnectServer(name, ok)
    \/ \E name \in ServerNames : RegDisconnectServer(name)
    \/ RegDisconnectAll
    \/ \E name \in ServerNames : TransportClose(name)
    \/ \E name \in ServerNames, reply \in ListReplies : RegListTools(name, reply)
    \/ \E replies \in [ServerNames -> ListReplies] : RegGetAllTools(replies)
    \/ \E toolName \in RequestedNames : RegGetServerForTool(toolName)

RegistrySpec == RegistryInit /\ [][RegistryNext]_vars

(***************************************************************************)
(* ShutdownSpec: the process with its signal handlers. main() runs step by *)
(* step between its awaits (the two connects and the listing of the tools  *)
(* are separate steps) on a healthy database through its first turn, and   *)
(* SIGINT and SIGTERM may each arrive once at any time while the process   *)
(* is alive, also while a turn or another teardown is in flight. A call of *)
(* disconnectAll() starts a disconnectServer for every connected server;   *)
(* each of them calls close and awaits its race with the timer, while the  *)
(* other callbacks of the process go on running.                           *)
(***************************************************************************)
ShutdownEnvs ==
    {[DATABASE_URL |-> TRUE, GITHUB_TOKEN |-> g, TAVILY_API_KEY |-> TRUE] : g \in BOOLEAN}

ShutdownInit == InitWith(ShutdownEnvs)

Alive == pc \notin {"exit0", "exit1"}

shutdownUnchanged == <<env, prisma, db, now, memVars, transports, conversation, engineVars>>

\* index.ts 163-177: connectServer('filesystem'), a throw is caught
ConnectFilesystem(ok) ==
    /\ pc = "connect"
    /\ servers' = connectServer(servers, connectedServers, "filesystem", ok).servers
    /\ connectedServers' = connectServer(servers, connectedServers, "filesystem", ok).connected
    /\ pc' = "connectGithub"
    /\ UNCHANGED <<shutdownVars, shutdownUnchanged>>

\* index.ts 179-197: connectServer('github') when GITHUB_TOKEN is set
ConnectGithub(ok) ==
    /\ pc = "connectGithub"
    /\ LET gh == IF env.GITHUB_TOKEN
                    THEN connectServer(servers, connectedServers, "github", ok)
                    ELSE [servers |-> servers, connected |-> connectedServers]
       IN  /\ servers' = gh.servers
           /\ connectedServers' = gh.connected
    /\ pc' = "listTools"
    /\ UNCHANGED <<shutdownVars, shutdownUnchanged>>

\* index.ts 211-212: mcpService.getAllTools()
ListAllTools(listOk) ==
    /\ pc = "listTools"
    /\ servers' = getAllTools(servers, connectedServers, ProviderReplies(listOk)).servers
    /\ pc' = "create"
    /\ UNCHANGED <<connectedServers, shutdownVars, shutdownUnchanged>>

\* disconnectAll up to its await: the servers whose disconnectServer has called
\* close and awaits the race (343-352)
Racing(m, connected) ==
    {name \in Range(connected) : MapHas(m, name) /\ MapGet(m, name).client}

\* a call of disconnectAll() by handler h: with nothing to wait for it returns in
\* the same turn of the event loop, and the caller goes on (a signal handler
\* calls process.exit(0), main returns)
DisconnectAllCalled(h) ==
    /\ teardown[h].state = "idle"
    /\ closeCalls' = CountCloses(closeCalls, Racing(servers, connectedServers))
    /\ IF Racing(servers, connectedServers) = {}
          THEN /\ teardown' = [teardown EXCEPT ![h].state = "done"]
               /\ pc' = "exit0"
          ELSE /\ teardown' = [teardown EXCEPT ![h] =
                                  [state |-> "waiting",
                                   racing |-> Racing(servers, connectedServers),
                                   abandoned |-> {}]]
               /\ pc' = IF h = "finally" THEN "cleanup" ELSE pc
    /\ UNCHANGED <<servers, connectedServers, shutdownUnchanged>>

\* index.ts 239-241 and 252-255: '/exit' leaves the loop, finally calls disconnectAll
ExitLoop ==
    /\ AtPrompt
    /\ DisconnectAllCalled("finally")

\* index.ts 262-276: the handler of a signal calls disconnectAll
Signal(sig) ==
    /\ Alive
    /\ DisconnectAllCalled(sig)

RaceOutcomes == {"closed", "threw", "timeout"}

\* part_000 349-355: the race of one disconnectServer of h settles (close
\* resolved, close rejected, or the timer fired after 1s), then the server is
\* deleted
RaceSettles(h, name, outcome) ==
    /\ Alive
    /\ teardown[h].state = "waiting"
    /\ name \in teardown[h].racing
    /\ servers' = MapDelete(servers, name)
    /\ connectedServers' = SetDelete(connectedServers, name)
    /\ teardown' = [teardown EXCEPT
                       ![h].racing = @ \ {name},
                       ![h].abandoned = IF outcome = "timeout" THEN @ \cup {name} ELSE @]
    /\ UNCHANGED <<closeCalls, pc, shutdownUnchanged>>

\* part_000 444: Promise.all resolves, disconnectAll returns, and its caller ends
\* the process (index.ts 267, 275; 258-259)
DisconnectAllReturns(h) ==
    /\ Alive
    /\ teardown[h].state = "waiting"
    /\ teardown[h].racing = {}
    /\ teardown' = [teardown EXCEPT ![h].state = "done"]
    /\ pc' = "exit0"
    /\ UNCHANGED <<servers, connectedServers, closeCalls, shutdownUnchanged>>

ShutdownNext ==
    \/ CheckDatabase(TRUE)
    \/ \E ok \in BOOLEAN : ConnectFilesystem(ok)
    \/ \E ok \in BOOLEAN : ConnectGithub(ok)
    \/ \E listOk \in BOOLEAN : ListAllTools(listOk)
    \/ CreateConversation(TRUE)
    \/ \E userInput \in UserInputs : pc = "prompt" /\ StartTurn(userInput, TRUE)
    \/ UserInputNode(TRUE)
    \/ \E reply \in HistoryReplies(MaxCalls - requested) : ModelNode(reply, TRUE, TRUE, TRUE)
    \/ ToolUseCall(TRUE, TRUE, TRUE)
    \/ ToolUseReturn(TRUE)
    \/ ExitLoop
    \/ \E sig \in Signals : Signal(sig)
    \/ \E h \in Handlers, name \in ServerNames, outcome \in RaceOutcomes :
          RaceSettles(h, name, outcome)
    \/ \E h \in Handlers : DisconnectAllReturns(h)

ShutdownSpec == ShutdownInit /\ [][ShutdownNext]_vars

\* the timers of the races fire and settled promises run their continuations
ShutdownFairness ==
    \A h \in Handlers :
        /\ WF_vars(DisconnectAllReturns(h))
        /\ \A name \in ServerNames : WF_vars(RaceSettles(h, name, "timeout"))

FairShutdownSpec == ShutdownSpec /\ ShutdownFairness

(***************************************************************************)
(* LoopSpec: one turn on a healthy database against a model that may       *)
(* request a tool in every response, without any bound on the number of    *)
(* tool calls of the turn: in each model step the model fails, answers, or *)
(* requests read_file, and the tool call succeeds or fails.                *)
(***************************************************************************)
LoopReplies ==
    {r \in Replies(1) :
        /\ Range(r.functionCalls) \subseteq {"read_file"}
        /\ r.text = (IF r.failed \/ r.functionCalls # <<>> THEN "" ELSE "Done")}

LoopNext ==
    \/ CheckDatabase(TRUE)
    \/ ConnectServers(TRUE, TRUE, TRUE)
    \/ CreateConversation(TRUE)
    \/ \E userInput \in UserInputs : pc = "prompt" /\ StartTurn(userInput, TRUE)
    \/ UserInputNode(TRUE)
    \/ \E reply \in LoopReplies : ModelNode(reply, TRUE, TRUE, TRUE)
    \/ \E ok \in BOOLEAN : ToolUseCall(ok, TRUE, TRUE)
    \/ ToolUseReturn(TRUE)

LoopSpec == HistoryInit /\ [][LoopNext]_vars

(***************************************************************************)
(* GeminiService.cleanJsonSchema. A JSON value is a record tagged with its *)
(* kind; the fields of an object are a function from its keys to values.   *)
(***************************************************************************)
Null == [kind |-> "null"]

Str(s) == [kind |-> "string", str |-> s]

Bool(b) == [kind |-> "boolean", bool |-> b]

Arr(elems) == [kind |-> "array", elems |-> elems]

Obj(fields) == [kind |-> "object", fields |-> fields]

\* the truthiness JavaScript gives a value
Truthy(v) ==
    IF v.kind = "null" THEN FALSE
    ELSE IF v.kind = "string" THEN v.str # ""
    ELSE IF v.kind = "boolean" THEN v.bool
    ELSE TRUE

\* the named properties of a value: those of an object, none for an array
FieldsOf(v) == IF v.kind = "object" THEN v.fields ELSE <<>>

\* schema.key is truthy
Present(schema, key) ==
    key \in DOMAIN FieldsOf(schema) /\ Truthy(FieldsOf(schema)[key])

\* GeminiService.cleanJsonSchema
RECURSIVE cleanJsonSchema(_)
cleanJsonSchema(schema) ==
    IF ~Truthy(schema) \/ schema.kind \notin {"object", "array"}
        THEN Obj(("type" :> Str("object")) @@ ("properties" :> Obj(<<>>)))
    ELSE LET f == FieldsOf(schema)
             copied == {key \in {"properties", "items", "description", "enum"} :
                           Present(schema, key)}
                       \cup {key \in {"required"} :
                                 Present(schema, key) /\ f[key].kind = "array"}
         IN  Obj([key \in {"type"} \cup copied |->
                    IF key = "type"
                        THEN IF Present(schema, "type") THEN f[key] ELSE Str("object")
                    ELSE IF key = "properties"
                        THEN Obj([name \in DOMAIN FieldsOf(f[key]) |->
                                     cleanJsonSchema(FieldsOf(f[key])[name])])
                    ELSE IF key = "items" THEN cleanJsonSchema(f[key])
                    ELSE f[key]])

(***************************************************************************)
(* SchemaSpec: convertToolsToGemini is applied to one tool whose           *)
(* inputSchema is drawn from Schemas: object and array schemas with and    *)
(* without a type, with a property or items taken from LeafSchemas, with   *)
(* required as an array or as a boolean, with and without keywords of the  *)
(* JSON Schema dialect, and a tool without inputSchema.                    *)
(***************************************************************************)
LeafSchemas ==
    {Obj("type" :> Str("string")),
     Obj(("type" :> Str("string")) @@ ("description" :> Str("path of the file"))),
     Obj(("type" :> Str("string")) @@ ("description" :> Str(""))),
     Obj("description" :> Str("any value")),
     Obj(("type" :> Str("string")) @@ ("enum" :> Arr(<<Str("asc"), Str("desc")>>))),
     Obj("enum" :> Arr(<<Str("asc"), Str("desc")>>)),
     Obj(("type" :> Str("string")) @@ ("format" :> Str("uri"))),
     Bool(TRUE)}

TypeFields == {<<>>, "type" :> Str("object"), "type" :> Str("array")}

PropertiesFields == {<<>>} \cup {"properties" :> Obj("path" :> leaf) : leaf \in LeafSchemas}

ItemsFields ==
    {<<>>} \cup {"items" :> leaf : leaf \in LeafSchemas}
           \cup {"items" :> Arr(<<Obj("type" :> Str("string"))>>)}

RequiredFields == {<<>>, "required" :> Arr(<<Str("path")>>), "required" :> Bool(TRUE)}

DialectFields ==
    {<<>>, ("$schema" :> Str("draft-07")) @@ ("additionalProperties" :> Bool(FALSE))}

Schemas ==
    {Null} \cup
    {Obj(t @@ p @@ i @@ r @@ d) :
        t \in TypeFields, p \in PropertiesFields, i \in ItemsFields,
        r \in RequiredFields, d \in DialectFields}

SchemaInit ==
    /\ env \in HistoryEnvs
    /\ prisma = getPrismaClient
    /\ db = EmptyDb
    /\ now = 1
    /\ memConversations = <<>>
    /\ messageIdCounter = 0
    /\ toolExecutionIdCounter = 0
    /\ lastCall \in {[op |-> "tool", inputSchema |-> schema] : schema \in Schemas}
    /\ servers = <<>>
    /\ connectedServers = <<>>
    /\ closeCalls = [name \in ServerNames |-> 0]
    /\ teardown = [h \in Handlers |-> NoTeardown]
    /\ transports = [name \in ServerNames |-> NoTransports]
    /\ pc = "caller"
    /\ conversation = 0
    /\ turn = 0
    /\ superstep = 0
    /\ requested = 0
    /\ historyLength = 0
    /\ turnStartDb = 0
    /\ messages = <<>>
    /\ shouldContinue = TRUE
    /\ toolResults = <<>>
    /\ response = NoResponse
    /\ callIdx = 1
    /\ toolMessages = <<>>
    /\ localResults = <<>>
    /\ executed = <<>>

\* GeminiService.convertToolsToGemini for the tool: parameters is the cleaned schema
ConvertToolsToGemini ==
    /\ lastCall.op = "tool"
    /\ lastCall' = [op |-> "convertToolsToGemini", inputSchema |-> lastCall.inputSchema,
                    parameters |-> cleanJsonSchema(lastCall.inputSchema)]
    /\ UNCHANGED <<db, now, memConversations, messageIdCounter, toolExecutionIdCounter,
                   storeUnchanged>>

SchemaNext == ConvertToolsToGemini

SchemaSpec == SchemaInit /\ [][SchemaNext]_vars

(***************************************************************************)
(* RoutingSpec: a dispatcher beside the registry. Providers are connected  *)
(* and listed, their lists naming read_file, web_search or both; web       *)
(* search is configured or not; and lines 311-332 of toolUseNode are       *)
(* applied to a tool call of any of RequestedNames, whose execution        *)
(* succeeds or fails.                                                      *)
(***************************************************************************)
RoutingEnvs ==
    {[DATABASE_URL |-> TRUE, GITHUB_TOKEN |-> TRUE, TAVILY_API_KEY |-> t] : t \in BOOLEAN}

RoutingInit == InitWith(RoutingEnvs)

RoutingReplies ==
    {Reply(TRUE, tools) : tools \in {<<"read_file">>, <<"web_search">>,
                                      <<"read_file", "web_search">>}}

\* toolUseNode, lines 311-332, for a tool call of the name toolName
Dispatch(toolName, ok) ==
    /\ lastCall' = [op |-> "execute", toolName |-> toolName, servers |-> servers, ok |-> ok,
                    result |-> Execute(servers, toolName, ok)]
    /\ UNCHANGED <<servers, connectedServers, closeCalls, registryUnchanged>>

RoutingNext ==
    \/ \E name \in ServerNames : RegConnectServer(name, TRUE)
    \/ \E name \in ServerNames, reply \in RoutingReplies : RegListTools(name, reply)
    \/ \E toolName \in RequestedNames, ok \in BOOLEAN : Dispatch(toolName, ok)

RoutingSpec == RoutingInit /\ [][RoutingNext]_vars

(***************************************************************************)
(* RoundTripSpec: a caller that keeps a message sequence and saves it,     *)
(* batch by batch, in both conversation stores: with saveMessages of       *)
(* MemoryStorageService and with saveMessages of ConversationService. The  *)
(* batches hold user, assistant and tool-result messages with string       *)
(* content, up to MaxLog messages in all. It reads the log back from both  *)
(* stores with a limit of at least the length of the log.                  *)
(***************************************************************************)
RoundTripMessages ==
    {HumanMessage("hi"),
     AIMessage("", <<[id |-> <<1, 0>>, name |-> "read_file"]>>),
     ToolMessage("{content}", <<1, 0>>, "read_file"),
     AIMessage("Done", <<>>)}

RoundTripBatches == SeqsUpTo(RoundTripMessages, 2) \ {<<>>}

roundTripUnchanged ==
    <<env, prisma, servers, connectedServers, shutdownVars, pc, conversation, turn, superstep,
      requested, historyLength, turnStartDb, shouldContinue, toolResults, response, callIdx,
      toolMessages, localResults, executed, toolExecutionIdCounter>>

\* memoryStorageService.createConversation(): the conversation the caller writes to
RoundTripCreate(r) ==
    /\ memConversations = <<>>
    /\ memConversations' = memCreateConversation(memConversations, now, r).conversations
    /\ lastCall' = [op |-> "createConversation", id |-> <<now, r>>, existed |-> FALSE,
                    result |-> memCreateConversation(memConversations, now, r).conversation]
    /\ now' = now + 1
    /\ UNCHANGED <<db, messageIdCounter, messages, roundTripUnchanged>>

\* saveMessages(id, msgs) of both stores, awaited
RoundTripSave(id, msgs) ==
    /\ Len(messages) + Len(msgs) <= MaxLog
    /\ LET r == memSaveMessages(memConversations, messageIdCounter, id, msgs, now)
       IN  /\ memConversations' = r.conversations
           /\ messageIdCounter' = r.messageIdCounter
    /\ db' = saveMessages(db, msgs, now, TRUE).db
    /\ messages' = messages \o msgs
    /\ lastCall' = [op |-> "saveMessages", id |-> id, known |-> TRUE, threw |-> FALSE]
    /\ now' = now + 1
    /\ UNCHANGED roundTripUnchanged

\* getConversationMessages(id, limit) of both stores
RoundTripRead(id, limit) ==
    /\ \E found \in getConversationMessages(db, limit, TRUE) :
          lastCall' = [op |-> "roundTrip", id |-> id, limit |-> limit, saved |-> messages,
                       memory |-> memGetConversationMessages(memConversations, id, limit),
                       database |-> found]
    /\ db' = PrismaRead(db)
    /\ now' = now + 1
    /\ UNCHANGED <<memConversations, messageIdCounter, messages, roundTripUnchanged>>

RoundTripNext ==
    \/ \E r \in RandomSuffixes : RoundTripCreate(r)
    \/ \E id \in DOMAIN memConversations :
          \/ \E msgs \in RoundTripBatches : RoundTripSave(id, msgs)
          \/ \E limit \in {Len(messages), Len(messages) + 1} :
                db.reads < 1 /\ RoundTripRead(id, limit)

RoundTripSpec == StoreInit /\ [][RoundTripNext]_vars

(***************************************************************************)
(* InterleavingSpec: callers of MCPService whose calls overlap. A call of  *)
(* connectServer creates its transport and awaits client.connect; a call   *)
(* of disconnectServer or disconnectAll calls close and awaits the race    *)
(* with the timer; between the call and the return of one, other calls     *)
(* start and return and transports close. Up to MaxConnects calls of       *)
(* connectServer are made in all, and up to MaxCloses calls of close for   *)
(* each name.                                                              *)
(***************************************************************************)
\* the end of disconnectServer as it would be if only the entry of the Map were
\* deleted
deleteServerEntryOnly(m, connected, name) ==
    [servers |-> MapDelete(m, name), connected |-> connected]

\* part_000 354-355: this.servers.delete(name); this.connectedServers.delete(name)
deleteServer(m, connected, name) ==
    [servers |-> MapDelete(m, name), connected |-> SetDelete(connected, name)]

\* the number of connectServer calls made so far
ConnectCalls(tr) == tr["filesystem"].created + tr["github"].created

interleavingUnchanged ==
    <<env, prisma, db, now, memVars, teardown, pc, conversation, engineVars>>

\* part_000 296-327: connectServer(name) creates the client and the transport, sets
\* onclose and awaits client.connect
ConnectCalled(name) ==
    /\ ConnectCalls(transports) < MaxConnects
    /\ LET g == transports[name].created + 1
       IN  transports' = [transports EXCEPT ![name].created = g,
                                             ![name].connecting = @ \cup {g},
                                             ![name].open = @ \cup {g}]
    /\ UNCHANGED <<servers, connectedServers, closeCalls, interleavingUnchanged>>

\* part_000 327-341: client.connect of transport g resolves, and the server is
\* stored and marked connected, or it rejects and connectServer throws
ConnectReturns(name, g, ok) ==
    /\ g \in transports[name].connecting
    /\ ok => g \in transports[name].open
    /\ servers' = connectServer(servers, connectedServers, name, ok).servers
    /\ connectedServers' = connectServer(servers, connectedServers, name, ok).connected
    /\ transports' = [transports EXCEPT ![name].connecting = @ \ {g},
                                         ![name].current = IF ok THEN g ELSE @,
                                         ![name].open = IF ok THEN @ ELSE @ \ {g}]
    /\ UNCHANGED <<closeCalls, interleavingUnchanged>>

\* part_000 323-325: transport g of name closes and its onclose runs
OnClose(name, g) ==
    /\ g \in transports[name].open
    /\ connectedServers' = onclose(connectedServers, name)
    /\ transports' = [transports EXCEPT ![name].open = @ \ {g}]
    /\ UNCHANGED <<servers, closeCalls, interleavingUnchanged>>

\* part_000 343-352: disconnectServer(name) finds a client, calls close on it and
\* awaits the race
DisconnectCalled(name) ==
    /\ MapHas(servers, name) /\ MapGet(servers, name).client
    /\ closeCalls[name] < MaxCloses
    /\ closeCalls' = CountCloses(closeCalls, {name})
    /\ transports' = [transports EXCEPT ![name].closing = @ \cup {transports[name].current}]
    /\ UNCHANGED <<servers, connectedServers, interleavingUnchanged>>

\* part_000 438-442: disconnectAll() starts a disconnectServer for every connected
\* server
DisconnectAllStarts ==
    /\ Racing(servers, connectedServers) # {}
    /\ \A name \in Racing(servers, connectedServers) : closeCalls[name] < MaxCloses
    /\ closeCalls' = CountCloses(closeCalls, Racing(servers, connectedServers))
    /\ transports' = [name \in ServerNames |->
                         IF name \in Racing(servers, connectedServers)
                             THEN [transports[name] EXCEPT
                                       !.closing = @ \cup {transports[name].current}]
                             ELSE transports[name]]
    /\ UNCHANGED <<servers, connectedServers, interleavingUnchanged>>

\* part_000 349-355: the race of a disconnectServer that called close on the client
\* of transport g settles, and the server is deleted
DisconnectSettles(name, g, outcome) ==
    /\ g \in transports[name].closing
    /\ servers' = deleteServer(servers, connectedServers, name).servers
    /\ connectedServers' = deleteServer(servers, connectedServers, name).connected
    /\ transports' = [transports EXCEPT ![name].closing = @ \ {g},
                                         ![name].current = 0,
                                         ![name].open = IF outcome = "closed" THEN @ \ {g} ELSE @]
    /\ UNCHANGED <<closeCalls, interleavingUnchanged>>

InterleavingNext ==
    \/ \E name \in ServerNames : ConnectCalled(name)
    \/ \E name \in ServerNames, g \in 1..MaxConnects, ok \in BOOLEAN :
          ConnectReturns(name, g, ok)
    \/ \E name \in ServerNames, g \in 1..MaxConnects : OnClose(name, g)
    \/ \E name \in ServerNames : DisconnectCalled(name)
    \/ DisconnectAllStarts
    \/ \E name \in ServerNames, g \in 1..MaxConnects, outcome \in RaceOutcomes :
          DisconnectSettles(name, g, outcome)

InterleavingSpec == StoreInit /\ [][InterleavingNext]_vars

(***************************************************************************)
(* Vocabulary of the properties.                                           *)
(***************************************************************************)
\* the messages produced in the current turn: the user message and what the nodes added
Produced == SliceFrom(messages, historyLength)

\* the message rows written to the database since the current turn started
StoredThisTurn == SliceFrom(db.messages, turnStartDb)

\* the run has ended: graph.invoke has returned ("end") or thrown ("threw")
RunOver == pc \in {"end", "threw"}

\* the message log of the primary in-memory tier for a conversation
MemoryLog(id) ==
    IF id \in DOMAIN memConversations THEN memConversations[id].messages ELSE <<>>

\* index of the last assistant message of a sequence, 0 when there is none
LastAssistant(ms) ==
    IF \E i \in 1..Len(ms) : ms[i].type = "ai"
        THEN CHOOSE i \in 1..Len(ms) :
                /\ ms[i].type = "ai"
                /\ \A j \in (i + 1)..Len(ms) : ms[j].type # "ai"
        ELSE 0

ToolCallIds(message) == {message.tool_calls[i].id : i \in 1..Len(message.tool_calls)}

\* every tool-result message answers a call of the nearest preceding assistant message
Paired(ms) ==
    \A i \in 1..Len(ms) :
        ms[i].type = "tool" =>
            /\ LastAssistant(SubSeq(ms, 1, i - 1)) # 0
            /\ ms[i].tool_call_id \in ToolCallIds(ms[LastAssistant(SubSeq(ms, 1, i - 1))])

(***************************************************************************)
(* C1. After a model step the engine is in the dispatch step exactly when  *)
(* the latest model response holds at least one tool call, and the run is  *)
(* over exactly when it holds none.                                        *)
(***************************************************************************)
C1_RoutingByToolCalls ==
    /\ pc = "toolUse" => Len(response.function_calls) > 0
    /\ (RunOver /\ ~response.failed) => Len(response.function_calls) = 0

(***************************************************************************)
(* C2. Dispatch isolation: when a dispatch step has handed control back to *)
(* the model, the messages after the requesting assistant message are one  *)
(* tool-result message per tool call, in call order, each with the id of   *)
(* its call and the payload that call produced (error or success).         *)
(***************************************************************************)
C2_DispatchIsolation ==
    (pc = "model" /\ requested > 0) =>
        LET a == LastAssistant(messages)
            calls == messages[a].tool_calls
            results == SliceFrom(messages, a)
        IN  /\ Len(results) = Len(calls)
            /\ Len(executed) = Len(calls)
            /\ \A i \in 1..Len(calls) :
                /\ i <= Len(results)
                /\ i <= Len(executed)
                /\ results[i] = ToolMessage(Content(executed[i]), calls[i].id, calls[i].name)

(***************************************************************************)
(* C3. Termination: a model response without tool calls ends the run with  *)
(* the assistant message built from that response as the last message and  *)
(* shouldContinue false.                                                   *)
(***************************************************************************)
C3_TerminatesOnPlainAnswer ==
    (RunOver /\ ~response.failed /\ Len(response.function_calls) = 0) =>
        /\ pc = "end"
        /\ Last(messages) = AIMessage(response.text, <<>>)
        /\ ~shouldContinue

(***************************************************************************)
(* C4. A failure of the model call never leaves the run as a throw: the    *)
(* run ends with the generic error message as its last message, that       *)
(* message is in the conversation store, and shouldContinue is false.      *)
(***************************************************************************)
C4_ModelFailureContained ==
    (RunOver /\ response.failed) =>
        /\ pc = "end"
        /\ Last(messages) = AIMessage(ErrorText, <<>>)
        /\ MessageData(AIMessage(ErrorText, <<>>)) \in {r.data : r \in Range(StoredThisTurn)}
        /\ ~shouldContinue

(***************************************************************************)
(* C5. Persist-before-proceed: whenever the engine is in a step after the  *)
(* user-input step, every message produced so far in the turn is in the    *)
(* conversation store.                                                     *)
(***************************************************************************)
C5_PersistBeforeProceed ==
    pc \in {"model", "toolUse", "end"} =>
        \A i \in 1..Len(Produced) :
            MessageData(Produced[i]) \in {r.data : r \in Range(StoredThisTurn)}

(***************************************************************************)
(* C6. History ordering: the history a turn loads is the last HistoryLimit *)
(* rows of the log in the order in which they were generated, and in it no *)
(* tool-result message comes before the assistant message that requested   *)
(* it.                                                                     *)
(***************************************************************************)
C6_HistoryInCausalOrder ==
    pc = "userInput" =>
        LET history == SubSeq(messages, 1, historyLength)
        IN  /\ history = RowsToMessages(SliceLast(db.messages, HistoryLimit))
            /\ \A i, j \in 1..Len(history) :
                (history[i].type = "tool" /\ history[j].type = "ai"
                    /\ history[i].tool_call_id \in ToolCallIds(history[j])) => j < i

(***************************************************************************)
(* C7. Call/result pairing: in the message sequence handed to the model at *)
(* a model step and in the sequence a run returns, every tool-result       *)
(* message carries the id of a tool call of the nearest preceding          *)
(* assistant message.                                                      *)
(***************************************************************************)
C7_CallResultPairing ==
    pc \in {"model", "end"} => Paired(messages)

(***************************************************************************)
(* C8. A failed database write during an append is not raised out of the   *)
(* run and does not keep the appended messages out of the primary          *)
(* in-memory log.                                                          *)
(***************************************************************************)
C8_DurableFailureAbsorbed ==
    db.failed =>
        /\ pc # "threw"
        /\ pc \in {"model", "toolUse", "end"} =>
              \A i \in 1..Len(Produced) :
                  MessageData(Produced[i]) \in
                      {r.data : r \in Range(MemoryLog(conversation))}

(***************************************************************************)
(* C9. At-most-one active durable mirror: once a write to the database has *)
(* failed, no later step sends another write to the database.              *)
(***************************************************************************)
C9_NoWriteAfterFailure ==
    [][db.failed => db'.calls = db.calls]_vars

(***************************************************************************)
(* C10. A conversation is created at startup also when the database throws *)
(* or is not configured: main() never takes its fatal exit and reaches the *)
(* interaction loop.                                                       *)
(***************************************************************************)
C10_StartupSurvivesDatabase ==
    pc # "exit1"

(***************************************************************************)
(* C11. The history a turn loads is read from the primary in-memory tier:  *)
(* it is what MemoryStorageService.getConversationMessages returns for the *)
(* conversation, and no query has been sent to the database.               *)
(***************************************************************************)
C11_HistoryFromMemoryTier ==
    pc = "userInput" =>
        /\ db.reads = 0
        /\ SubSeq(messages, 1, historyLength) =
               memGetConversationMessages(memConversations, conversation, HistoryLimit)

(***************************************************************************)
(* C12. MemoryStorageService.getConversationMessages(id, limit) on a log   *)
(* of n messages returns the last min(limit, n) messages of the log,       *)
(* oldest first, for every limit >= 0.                                     *)
(***************************************************************************)
C12_ReadReturnsLastMessages ==
    (lastCall.op = "getConversationMessages" /\ lastCall.known) =>
        LET n == Len(lastCall.log)
            k == Min(lastCall.limit, n)
        IN  /\ Len(lastCall.result) = k
            /\ \A i \in 1..k :
                  i <= Len(lastCall.result) =>
                      lastCall.result[i] = memRowToMessage(lastCall.log[n - k + i])

(***************************************************************************)
(* C13. A call for a conversation id the store does not know: a read       *)
(* returns an empty result, a write returns without raising, and the call  *)
(* leaves the store as it was.                                             *)
(***************************************************************************)
UnknownIdOps ==
    {"saveMessages", "saveToolExecution", "updateState", "getConversation",
     "getConversationMessages", "ConversationService.saveMessages",
     "ConversationService.saveToolExecution"}

C13_UnknownIdDropped ==
    [][(lastCall'.op \in UnknownIdOps /\ ~lastCall'.known) =>
          /\ ~lastCall'.threw
          /\ lastCall'.op = "getConversation" => ~lastCall'.result.found
          /\ lastCall'.op = "getConversationMessages" => lastCall'.result = <<>>
          /\ memConversations' = memConversations
          /\ messageIdCounter' = messageIdCounter
          /\ toolExecutionIdCounter' = toolExecutionIdCounter
          /\ db'.messages = db.messages
          /\ db'.toolExecutions = db.toolExecutions]_vars

(***************************************************************************)
(* C14. The message log of a conversation is append-only: in every step of *)
(* the store each conversation stays in the store and its log before the   *)
(* step is a prefix of its log after the step.                             *)
(***************************************************************************)
IsPrefix(s, t) == Len(s) <= Len(t) /\ SubSeq(t, 1, Len(s)) = s

C14_LogAppendOnly ==
    [][\A id \in DOMAIN memConversations :
          /\ MemHas(memConversations', id)
          /\ IsPrefix(memConversations[id].messages, memConversations'[id].messages)]_vars

(***************************************************************************)
(* C15. createConversation returns an id that no earlier call returned:    *)
(* the id is not yet a key of the store when the call is made.             *)
(***************************************************************************)
C15_FreshConversationId ==
    lastCall.op = "createConversation" => ~lastCall.existed

(***************************************************************************)
(* C16. Dispatch-resolution failure: when a dispatch step has handed       *)
(* control back to the model and no provider claimed the name of one of    *)
(* the requested tools, the history holds exactly one tool-result message  *)
(* for that call, carrying the resolution error, and a tool-result message *)
(* for every other call of the step.                                       *)
(***************************************************************************)
Unresolvable(toolName) ==
    toolName # "web_search" /\ getServerForTool(servers, toolName) = "null"

C16_ResolutionFailureIsolated ==
    (pc = "model" /\ requested > 0) =>
        LET a == LastAssistant(messages)
            calls == messages[a].tool_calls
            results == SliceFrom(messages, a)
            Answers(i) == {j \in 1..Len(results) : results[j].tool_call_id = calls[i].id}
        IN  \A i \in 1..Len(calls) :
                Unresolvable(calls[i].name) =>
                    /\ Cardinality(Answers(i)) = 1
                    /\ \A j \in Answers(i) :
                          results[j] = ToolMessage(Content(Error("No server found for tool")),
                                                   calls[i].id, calls[i].name)
                    /\ \A k \in 1..Len(calls) : Answers(k) # {}

(***************************************************************************)
(* C17. Every tool call attempted in a dispatch step adds exactly one      *)
(* ToolExecution record: FAILED with the error payload as output when the  *)
(* call failed, COMPLETED with the provider's result as output otherwise.  *)
(***************************************************************************)
ExecutionRecord(toolName, payload) ==
    [toolName |-> toolName, output |-> payload,
     status |-> IF payload.kind = "error" THEN "FAILED" ELSE "COMPLETED"]

C17_OneExecutionRecordPerCall ==
    [][Len(executed') = Len(executed) + 1 =>
          db'.toolExecutions =
              Append(db.toolExecutions,
                     ExecutionRecord(Last(messages).tool_calls[callIdx].name,
                                     Last(executed')))]_vars

(***************************************************************************)
(* C18. A failure of the persistence layer does not change the outcome of  *)
(* a dispatch step: when the step hands control back to the model after a  *)
(* database write has failed, it has added one tool-result message per     *)
(* tool call, in call order, each carrying what its call produced.         *)
(***************************************************************************)
C18_PersistenceFailureHarmless ==
    [][(pc = "toolUse" /\ pc' = "model" /\ db'.failed) =>
          LET calls == Last(messages).tool_calls
          IN  /\ Len(executed') = Len(calls)
              /\ messages' = messages \o
                    [i \in 1..Len(calls) |->
                        ToolMessage(Content(executed'[i]), calls[i].id, calls[i].name)]]_vars

(***************************************************************************)
(* C19. getServerForTool(toolName) returns the first provider, in the      *)
(* order of registration, whose cached tool list holds the name, and null  *)
(* when no cached list holds it; several providers may hold the name.      *)
(***************************************************************************)
Advertisers(m, toolName) ==
    {i \in 1..Len(m) : m[i].cached /\ toolName \in Range(m[i].tools)}

C19_FirstRegisteredProviderWins ==
    lastCall.op = "getServerForTool" =>
        LET hits == Advertisers(lastCall.servers, lastCall.toolName)
        IN  IF hits = {} THEN lastCall.result = "null"
            ELSE \E i \in hits :
                    /\ \A j \in hits : i <= j
                    /\ lastCall.result = lastCall.servers[i].name

\* a name two registered providers hold was resolved to the first of them
C19_Witness ==
    /\ lastCall.op = "getServerForTool"
    /\ Cardinality(Advertisers(lastCall.servers, lastCall.toolName)) = 2
    /\ lastCall.result = lastCall.servers[1].name

(***************************************************************************)
(* C20. getAllTools() returns the concatenation, over the providers        *)
(* connected when it is called and in their order, of the tool list each   *)
(* returns in this call, a provider whose listing throws contributing      *)
(* nothing.                                                                *)
(***************************************************************************)
RECURSIVE Concat(_)
Concat(seqs) == IF seqs = <<>> THEN <<>> ELSE Head(seqs) \o Concat(Tail(seqs))

C20_AggregateOfConnectedProviders ==
    lastCall.op = "getAllTools" =>
        lastCall.result =
            Concat([i \in 1..Len(lastCall.connected) |->
                       IF lastCall.replies[lastCall.connected[i]].ok
                           THEN lastCall.replies[lastCall.connected[i]].tools
                           ELSE <<>>])

\* two providers were connected, the listing of the first threw and the second
\* returned tools
C20_Witness ==
    /\ lastCall.op = "getAllTools"
    /\ Len(lastCall.connected) = 2
    /\ ~lastCall.replies[lastCall.connected[1]].ok
    /\ lastCall.replies[lastCall.connected[2]].ok
    /\ lastCall.result # <<>>

C21_DisconnectAllCompletes ==
    \A h \in Handlers :
        (teardown[h].state = "waiting") ~> (teardown[h].state = "done" \/ ~Alive)

(***************************************************************************)
(* C21. When a call of disconnectAll() has completed no provider is        *)
(* connected.                                                              *)
(***************************************************************************)
C21_NoneConnectedAfterTeardown ==
    \A h \in Handlers : teardown[h].state = "done" => connectedServers = <<>>

(***************************************************************************)
(* C27. From the arrival of SIGINT or SIGTERM on, the turn in flight is    *)
(* abandoned: none of its steps sends another write to the database.       *)
(***************************************************************************)
InFlight == pc \in {"userInput", "model", "toolUse"}

C27_InterruptAbandonsTurn ==
    [][((\E sig \in Signals : teardown[sig].state # "idle") /\ InFlight)
          => db'.calls = db.calls]_vars

(***************************************************************************)
(* C23. The message sequence a run returns is the initial messages (the    *)
(* history, then the new user message) followed by the messages of the     *)
(* turn in production order: for each dispatch round the assistant message *)
(* with its calls and then one tool result per call, in call order, and at *)
(* the end the final assistant message; shouldContinue is false. With an   *)
(* empty history and one round of one call the length is 4.                *)
(***************************************************************************)
RECURSIVE Rounds(_)
Rounds(ms) ==
    IF ms = <<>> THEN FALSE
    ELSE IF Head(ms).type # "ai" THEN FALSE
    ELSE LET calls == Head(ms).tool_calls
         IN  IF calls = <<>> THEN Len(ms) = 1
             ELSE /\ Len(ms) > Len(calls) + 1
                  /\ \A i \in 1..Len(calls) :
                        /\ ms[1 + i].type = "tool"
                        /\ ms[1 + i].tool_call_id = calls[i].id
                  /\ Rounds(SubSeq(ms, Len(calls) + 2, Len(ms)))

C23_ReturnedSequence ==
    pc = "end" =>
        /\ ~shouldContinue
        /\ Len(messages) > historyLength
        /\ messages[historyLength + 1].type = "human"
        /\ Rounds(SliceFrom(messages, historyLength + 1))
        /\ (historyLength = 0 /\ requested = 1) => Len(messages) = 4

(***************************************************************************)
(* C24. At the end of a run toolResults holds, under the id of every tool  *)
(* call the model requested in any dispatch round of the run, the payload  *)
(* of that call: the payload whose content the tool-result message of the  *)
(* call carries.                                                           *)
(***************************************************************************)
C24_ToolResultsMerged ==
    pc = "end" =>
        \A i \in 1..Len(Produced) :
            \A k \in 1..Len(Produced[i].tool_calls) :
                LET id == Produced[i].tool_calls[k].id
                IN  /\ id \in DOMAIN toolResults
                    /\ \A j \in 1..Len(Produced) :
                          (Produced[j].type = "tool" /\ Produced[j].tool_call_id = id)
                              => Produced[j].content = Content(toolResults[id])

(***************************************************************************)
(* C25. No bound on the dispatch rounds of a turn: a model step ends the   *)
(* run only when the model call failed or the response holds no tool call, *)
(* and a dispatch step never ends the run but hands control back to the    *)
(* model, so that against a model that requests a tool in every response   *)
(* the run never ends.                                                     *)
(***************************************************************************)
C25_NoRoundBound ==
    [][/\ (pc = "model" /\ pc' \in {"end", "threw"}) =>
              (response'.failed \/ response'.function_calls = <<>>)
       /\ pc = "toolUse" => pc' \in {"toolUse", "model"}]_vars

(***************************************************************************)
(* C26. No two turns of the conversation are in progress at the same time: *)
(* a turn starts (the driver reads the input and invokes the graph) only   *)
(* when no run is in flight, the previous run having returned or thrown.   *)
(***************************************************************************)
C26_TurnsDoNotOverlap ==
    [][turn' # turn =>
          /\ ~InFlight
          /\ turn > 0 => RunOver
          /\ turn' = turn + 1
          /\ pc' = "userInput"]_vars

\* a second turn is in flight, started after the first run had ended
C26_Witness ==
    /\ turn = 2
    /\ InFlight

(***************************************************************************)
(* C28. Crash consistency: at whatever point of a turn the process stops,  *)
(* the message rows the turn has written to the store are a gap-free       *)
(* prefix of the messages the turn has produced, in their causal order: no *)
(* message is stored while an earlier message of the turn is missing.      *)
(***************************************************************************)
StoredData == [i \in 1..Len(StoredThisTurn) |-> StoredThisTurn[i].data]

ProducedData == [i \in 1..Len(Produced) |-> MessageData(Produced[i])]

C28_StoredPrefixOfTurn ==
    (turn > 0 /\ (InFlight \/ RunOver)) => IsPrefix(StoredData, ProducedData)

(***************************************************************************)
(* C29. The initial message sequence of a turn is the last                 *)
(* min(HistoryLimit, n) messages of the stored log of n messages, in the   *)
(* order of the log, followed by the new user message and nothing else.    *)
(***************************************************************************)
C29_InitialSequence ==
    pc = "userInput" =>
        \E userInput \in UserInputs :
            messages = RowsToMessages(SliceLast(db.messages, HistoryLimit))
                           \o <<HumanMessage(userInput)>>

(***************************************************************************)
(* C30. cleanJsonSchema keeps, at every nesting level of the schema        *)
(* (through properties and items), the keywords type, properties,          *)
(* required, items, enum and description with their values and removes     *)
(* every other keyword, and cleaning the result again changes nothing.     *)
(***************************************************************************)
KeptKeywords == {"type", "properties", "required", "items", "enum", "description"}

RECURSIVE KeepSix(_)
KeepSix(schema) ==
    IF schema.kind # "object" THEN schema
    ELSE Obj([key \in DOMAIN schema.fields \cap KeptKeywords |->
                 IF key = "properties"
                     THEN Obj([name \in DOMAIN FieldsOf(schema.fields[key]) |->
                                  KeepSix(FieldsOf(schema.fields[key])[name])])
                 ELSE IF key = "items" THEN KeepSix(schema.fields[key])
                 ELSE schema.fields[key]])

C30_CleanKeepsSixKeywords ==
    lastCall.op = "convertToolsToGemini" =>
        /\ lastCall.parameters = KeepSix(lastCall.inputSchema)
        /\ cleanJsonSchema(lastCall.parameters) = lastCall.parameters

(***************************************************************************)
(* C33. Every message generated in a turn is in the store exactly once:    *)
(* loading the history writes nothing, and when the run of a turn is over  *)
(* the message rows written since the turn started are the messages the    *)
(* turn produced, one row per message, the loaded history not among them.  *)
(***************************************************************************)
C33_EachMessageStoredOnce ==
    /\ pc = "userInput" => Len(db.messages) = turnStartDb
    /\ RunOver => StoredData = ProducedData

(***************************************************************************)
(* C34. The ids of the tool calls of a turn are pairwise distinct, within  *)
(* one assistant message and across the dispatch rounds of the turn, so    *)
(* that every tool_call_id of a tool-result message and every key of       *)
(* toolResults names exactly one tool call of the turn.                    *)
(***************************************************************************)
\* the tool calls of the assistant messages of a sequence, in order
CallsOf(ms) == Concat([i \in 1..Len(ms) |-> ms[i].tool_calls])

\* the tool-result messages of a sequence, in order
ToolResultsOf(ms) == SelectSeq(ms, LAMBDA m : m.type = "tool")

Descriptors(tools) ==
    tools \o (IF env.TAVILY_API_KEY THEN <<"web_search">> ELSE <<>>)

C35_OfferedToolsResolve ==
    lastCall.op = "getAllTools" =>
        \A toolName \in Range(Descriptors(lastCall.result)) :
            toolName = "web_search" \/ getServerForTool(servers, toolName) # "null"

\* getAllTools has returned the tools of two providers, and afterwards the
\* transport of one of them closed
C35_Witness ==
    /\ lastCall.op = "getAllTools"
    /\ {"read_file", "create_issue"} \subseteq Range(lastCall.result)
    /\ Len(lastCall.connected) = 2
    /\ connectedServers # lastCall.connected

(***************************************************************************)
(* C36. getServerForTool never returns a provider that is not connected    *)
(* when it is called: after the transport of a provider has closed, or the *)
(* provider has been disconnected, no tool name resolves to it.            *)
(***************************************************************************)
C36_ResolvesOnlyConnected ==
    (lastCall.op = "getServerForTool" /\ lastCall.result # "null") =>
        lastCall.result \in Range(lastCall.connected)

(***************************************************************************)
(* C39. A tool call named web_search is executed by the web search         *)
(* service and never by a provider, also when a provider advertises a tool *)
(* of that name, and when web search is not configured it yields an error; *)
(* a tool call of any other name is never executed by the web search       *)
(* service.                                                                *)
(***************************************************************************)
\* what the web search service can answer to a call
WebSearchPayloads == {executeTool(ok) : ok \in BOOLEAN}

C39_WebSearchRouting ==
    lastCall.op = "execute" =>
        /\ lastCall.toolName = "web_search" => lastCall.result = executeTool(lastCall.ok)
        /\ (lastCall.toolName = "web_search" /\ ~env.TAVILY_API_KEY) =>
              lastCall.result = Error("Web search not configured")
        /\ lastCall.toolName # "web_search" => lastCall.result \notin WebSearchPayloads

\* a web_search call was dispatched while a provider advertises web_search and web
\* search is not configured
C39_Witness ==
    /\ lastCall.op = "execute"
    /\ lastCall.toolName = "web_search"
    /\ getServerForTool(lastCall.servers, "web_search") # "null"
    /\ ~env.TAVILY_API_KEY

(***************************************************************************)
(* C40. Round trip: a sequence of user, assistant and tool-result messages *)
(* with string content that was saved with saveMessages is returned by     *)
(* getConversationMessages, called with a limit of at least the length of  *)
(* the log, as messages of the same roles, content, tool_calls,            *)
(* tool_call_id and name, in the same order; for both stores.              *)
(***************************************************************************)
C40_RoundTrip ==
    lastCall.op = "roundTrip" =>
        /\ lastCall.memory = lastCall.saved
        /\ lastCall.database = lastCall.saved

\* the same for MemoryStorageService alone
C40_MemoryRoundTrip ==
    lastCall.op = "roundTrip" => lastCall.memory = lastCall.saved

(***************************************************************************)
(* C31. Within one dispatch step the tool calls of the assistant message   *)
(* are executed one after another in declaration order: call number i is   *)
(* executed when exactly the i - 1 calls before it have been attempted,    *)
(* its ToolExecution record is written before the next call starts, and    *)
(* the step hands over to the model only when every call of the message    *)
(* has been attempted.                                                     *)
(***************************************************************************)
C31_SequentialDispatch ==
    [][/\ (pc = "toolUse" /\ executed' # executed) =>
              /\ Len(executed) = callIdx - 1
              /\ Len(executed') = callIdx
              /\ Len(db'.toolExecutions) = Len(db.toolExecutions) + 1
       /\ (pc = "toolUse" /\ pc' # "toolUse") =>
              Len(executed') = Len(Last(messages).tool_calls)]_vars

(***************************************************************************)
(* C32. While a provider call is in flight the store already holds a       *)
(* ToolExecution record for it: in the state from which a tool call is     *)
(* executed there is a record of the call's tool with status PENDING or    *)
(* RUNNING, and once the call has resolved or thrown the latest record of  *)
(* the tool has status COMPLETED or FAILED.                                *)
(***************************************************************************)
C32_RecordWhileInFlight ==
    [][(pc = "toolUse" /\ executed' # executed) =>
          LET toolName == Last(messages).tool_calls[callIdx].name
          IN  /\ \E i \in 1..Len(db.toolExecutions) :
                    /\ db.toolExecutions[i].toolName = toolName
                    /\ db.toolExecutions[i].status \in {"PENDING", "RUNNING"}
              /\ db'.toolExecutions # <<>>
              /\ Last(db'.toolExecutions).toolName = toolName
              /\ Last(db'.toolExecutions).status \in {"COMPLETED", "FAILED"}]_vars

\* the second half of C32 alone: the call leaves a finalized record
C32_FinalRecord ==
    [][(pc = "toolUse" /\ executed' # executed) =>
          /\ db'.toolExecutions # <<>>
          /\ Last(db'.toolExecutions).toolName = Last(messages).tool_calls[callIdx].name
          /\ Last(db'.toolExecutions).status \in {"COMPLETED", "FAILED"}]_vars

(***************************************************************************)
(* C37. When a provider name has been connected again, a late close of an  *)
(* earlier transport does not mark the new connection as disconnected: a   *)
(* name whose client in the servers Map comes from a later connectServer   *)
(* call and is live (its transport open, no close called on it), while no  *)
(* connectServer call is in flight, is in the connected set, from which    *)
(* getAllTools takes the providers it lists.                               *)
(***************************************************************************)
\* the client the servers Map holds for name is live
LiveClient(name) ==
    /\ MapHas(servers, name)
    /\ MapGet(servers, name).client
    /\ transports[name].current \in transports[name].open \ transports[name].closing

C37_ReconnectedStaysConnected ==
    \A name \in ServerNames :
        (/\ LiveClient(name)
         /\ transports[name].current > 1
         /\ transports[name].connecting = {}) => name \in Range(connectedServers)

(***************************************************************************)
(* C38. In every state of the registry, under any interleaving of          *)
(* connectServer, disconnectServer, disconnectAll and transport closes,    *)
(* every name in the connected set has an entry with a client in the       *)
(* servers Map.                                                            *)
(***************************************************************************)
C38_ConnectedHaveClients ==
    \A name \in Range(connectedServers) : MapHas(servers, name) /\ MapGet(servers, name).client

\* a name was connected again while a disconnectServer that called close on its
\* earlier client still awaits the race: the name is connected, through a client
\* that is not the one being closed
C38_Witness ==
    \E name \in ServerNames :
        /\ name \in Range(connectedServers)
        /\ transports[name].closing # {}
        /\ transports[name].current \notin transports[name].closing
        /\ transports[name].current # 0

====
